---- MODULE Spec2Model ----
(***************************************************************************)
(* A model of moveitAPI/moveit.py: the five module-level functions of the  *)
(* MOVEit REST client (auth_move_it, read_move_it_file, available_files,   *)
(* available_folders, upload_move_it_file) run against a remote service    *)
(* whose answers are chosen nondeterministically.                          *)
(*                                                                         *)
(* Python values are modelled as follows.                                  *)
(*   dict            a set of <<key, value>> pairs                         *)
(*   JSON number     [t |-> "int", v |-> n]; a number sent as a JSON       *)
(*                   string is [t |-> "str", v |-> n]                      *)
(*   list            a sequence                                            *)
(*   None/True/False the strings "None", "True", "False"                   *)
(* A call ends with result.kind = "return" or result.kind = "raise".       *)
(***************************************************************************)
EXTENDS Integers, Sequences, FiniteSets, TLC

VARIABLES
    op,           \* the function being executed, "idle" before any call
    pc,           \* the position inside that function
    args,         \* the arguments of the call
    server,       \* how the remote service pages its listings
    requests,     \* the HTTP requests sent so far by the call, in order
    responses,    \* the HTTP responses received so far by the call, in order
    items,        \* available_files / available_folders: local `items`
    page,         \* available_files / available_folders: local `page`
    total_pages,  \* available_files / available_folders: local `total_pages`
    tmp,          \* read_move_it_file: the file behind tmp.name
    data,         \* read_move_it_file: local `data`, <<>> while unbound
    result        \* how the call ended

vars == <<op, pc, args, server, requests, responses, items, page, total_pages,
          tmp, data, result>>

----------------------------------------------------------------------------
(* Bounds of the model.                                                    *)

\* The largest number of pages of a well-behaved paged listing.
MaxPages == 3
\* The largest number of items on one page of a well-behaved listing.
MaxPageLen == 2
\* The largest page / totalPages value an arbitrary service answers with.
MaxArbPage == 2
\* The number of requests after which the model stops following a lister.
MaxRequests == 3

\* size >= 40000000 in upload_move_it_file.
ChunkThreshold == 40000000

----------------------------------------------------------------------------
(* Python values.                                                          *)

Has(d, k) == \E kv \in d : kv[1] = k
Get(d, k) == (CHOOSE kv \in d : kv[1] = k)[2]

JInt(n) == [t |-> "int", v |-> n]

\* int(x): a JSON int is itself, a numeric JSON string becomes the int.
PyInt(x) == [t |-> "int", v |-> x.v]

\* x + 1 is defined on an int only; on a str it raises TypeError.
CanAdd1(x) == x.t = "int"
PyAdd1(x) == [t |-> "int", v |-> x.v + 1]

\* str(x) inside an f-string: a number prints as its decimal digits.
PyStr(x) == ToString(x.v)

NoResult == [kind |-> "none"]
Return(v) == [kind |-> "return", val |-> v]
Raise(e, v) == [kind |-> "raise", exc |-> e, val |-> v]

----------------------------------------------------------------------------
(* The inputs and the remote service.                                      *)

BaseUrls == {"example.org"}
AccessTokens == {"T1", "T2"}

\* The token mappings a caller may pass: two carry an access_token, one is an
\* error document without it.
TokenMaps ==
    {{<<"access_token", t>>, <<"token_type", "bearer">>} : t \in AccessTokens}
        \cup {{<<"error", "invalid_grant">>}}

\* The HTTP status codes the service answers with.
StatusCodes ==
    {200, 201, 202, 204, 299, 300, 304, 399,
     400, 401, 404, 499, 500, 503, 599, 600}

\* A response body: a JSON document or text that is not JSON.
JsonBody(v) == <<"json", v>>
TextBody == <<"text">>
AuthBodies == {JsonBody(m) : m \in TokenMaps} \cup {TextBody}

Request(method, url, headers) ==
    [method |-> method, url |-> url, headers |-> headers]

----------------------------------------------------------------------------
(* auth_move_it(base_url, payload)                                         *)

Init ==
    /\ op = "idle"
    /\ pc = "idle"
    /\ args = [none |-> TRUE]
    /\ server = [mode |-> "none", sizes |-> <<>>]
    /\ requests = <<>>
    /\ responses = <<>>
    /\ items = <<>>
    /\ page = JInt(0)
    /\ total_pages = JInt(0)
    /\ tmp = "none"
    /\ data = <<>>
    /\ result = NoResult

\* url = f"https://moveit.{base_url}/api/v1/token"
AuthUrl(base_url) == "https://moveit." \o base_url \o "/api/v1/token"

\* requests.post(url, data=payload, headers={'Content-Type': 'application/json'})
AuthRequest(base_url) ==
    Request("POST", AuthUrl(base_url), {<<"Content-Type", "application/json">>})

\* The mutant of raise_for_status that treats only 5xx as an error.
raise_for_status_5xx(status) == status >= 500 /\ status < 600

\* response.raise_for_status() raises HTTPError for 400 <= status < 600.
raise_for_status(status) == status >= 400 /\ status < 600

\* str(e) of the HTTPError: "<status> Client Error: ..." or "<status> Server Error: ...".
HTTPErrorStr(status, url) ==
    ToString(status)
        \o (IF status < 500 THEN " Client Error" ELSE " Server Error")
        \o " for url: " \o url

\* What auth_move_it makes of a response.
AuthResult(status, body, url) ==
    IF raise_for_status(status)
    THEN Return(<<"str", "Error: " \o HTTPErrorStr(status, url)>>)
    ELSE IF body[1] = "json"
         THEN Return(<<"json", body[2]>>)
         ELSE Raise("JSONDecodeError", <<>>)

auth_move_it ==
    /\ op = "idle"
    /\ \E base_url \in BaseUrls, status \in StatusCodes, body \in AuthBodies :
        /\ op' = "auth_move_it"
        /\ args' = [base_url |-> base_url, payload |-> "credentials"]
        /\ requests' = <<AuthRequest(base_url)>>
        /\ responses' = <<[status |-> status, body |-> body]>>
        /\ result' = AuthResult(status, body, AuthUrl(base_url))
        /\ pc' = "done"
    /\ UNCHANGED <<server, items, page, total_pages, tmp, data>>

----------------------------------------------------------------------------
(* upload_move_it_file(base_url, tokens, folder_id, file_path, file_type,  *)
(*                     chunked=False)                                      *)

FolderIds == {"42"}
\* The local file: its size in bytes, or -1 when file_path names no file.
FileSizes == {-1, 0, ChunkThreshold - 1, ChunkThreshold, ChunkThreshold + 1, 50000000}
ChunkedArgs == {"None", "False", "True"}

\* if chunked is None: chunked = False
NormalizeChunked(chunked) == IF chunked = "None" THEN "False" ELSE chunked

\* The truth value Python gives the (normalized) argument.
Truthy(x) == x = "True"

\* token = f"Bearer {tokens['access_token']}"
Bearer(tokens) == "Bearer " \o Get(tokens, "access_token")

\* url = f"https://moveit.{base_url}/api/v1/folders/{folder_id}/files"
UploadUrl(base_url, folder_id) ==
    "https://moveit." \o base_url \o "/api/v1/folders/" \o folder_id \o "/files"

\* The mutant of UseChunked that compares with > instead of >=.
UseChunkedStrict(size, chunked) == size > ChunkThreshold \/ Truthy(chunked)

\* if size >= 40000000 or chunked:
UseChunked(size, chunked) == size >= ChunkThreshold \/ Truthy(chunked)

UploadHeaders(tokens, size, chunked) ==
    {<<"Authorization", Bearer(tokens)>>,
     <<"accept", "application/json">>,
     <<"Content-Type", "multipart/form-data">>}
        \cup (IF UseChunked(size, chunked)
              THEN {<<"Transfer-Encoding", "chunked">>}
              ELSE {})

\* The mutant of UploadOk that accepts every 2xx status.
UploadOkAny2xx(status) == status >= 200 /\ status < 300

\* response.status_code not in [201, 200] raises.
UploadOk(status) == status \in {201, 200}

\* if response.status_code not in [201, 200]: raise Exception(response.status_code)
UploadResult(status) ==
    IF UploadOk(status) THEN Return(<<"None">>) ELSE Raise("Exception", <<status>>)

upload_move_it_file ==
    /\ op = "idle"
    /\ \E base_url \in BaseUrls, tokens \in TokenMaps, folder_id \in FolderIds,
          size \in FileSizes, chunked \in ChunkedArgs, status \in StatusCodes :
        /\ op' = "upload_move_it_file"
        /\ args' = [base_url |-> base_url, tokens |-> tokens, folder_id |-> folder_id,
                    size |-> size, file_type |-> "text/csv", chunked |-> chunked]
        /\ pc' = "done"
        /\ IF ~Has(tokens, "access_token")
           THEN /\ result' = Raise("KeyError", <<"access_token">>)
                /\ UNCHANGED <<requests, responses>>
           ELSE IF size < 0
           THEN /\ result' = Raise("FileNotFoundError", <<>>)
                /\ UNCHANGED <<requests, responses>>
           ELSE /\ requests' =
                    <<Request("POST", UploadUrl(base_url, folder_id),
                              UploadHeaders(tokens, size, NormalizeChunked(chunked)))>>
                /\ responses' = <<[status |-> status]>>
                /\ result' = UploadResult(status)
    /\ UNCHANGED <<server, items, page, total_pages, tmp, data>>

----------------------------------------------------------------------------
(* The remote service's listings.                                          *)

\* A well-behaved paged listing is given by the sizes of its pages 1..T; the
\* i-th item of page k is <<k, i>>, so that all items are distinct.
PageSizes == UNION {[1..T -> 0..MaxPageLen] : T \in 1..MaxPages}

Servers ==
    {[mode |-> "paged", sizes |-> s] : s \in PageSizes}
        \cup {[mode |-> "arbitrary", sizes |-> <<>>]}

TotalPages(srv) == Len(srv.sizes)

PageItems(srv, k) ==
    IF k \in 1..TotalPages(srv)
    THEN [i \in 1..srv.sizes[k] |-> <<k, i>>]
    ELSE <<>>

\* The page a listing URL asks for: page 1 when it carries no ?page= suffix.
RequestedPage(url_page, url) ==
    IF url_page = url
    THEN 1
    ELSE CHOOSE k \in 0..(MaxPages + MaxArbPage + MaxRequests + 3) :
             url_page = url \o "?page=" \o ToString(k)

Envelope(its, p, t) == [ok |-> TRUE, items |-> its, page |-> p, totalPages |-> t]
\* A JSON document that is no page envelope, such as an error document.
NoEnvelope == [ok |-> FALSE, items |-> <<>>, page |-> JInt(0), totalPages |-> JInt(0)]

\* An arbitrary service answers with any page / totalPages in 1..MaxArbPage,
\* each sent as a JSON int or as a JSON string, and one item per page.
ArbNumbers == {[t |-> k, v |-> n] : k \in {"int", "str"}, n \in 1..MaxArbPage}
ArbItems == {<< <<0, 1>> >>}

\* The answers the service may give to a listing request.
ListResponses(srv, url_page, url) ==
    IF srv.mode = "paged"
    THEN {Envelope(PageItems(srv, RequestedPage(url_page, url)),
                   JInt(RequestedPage(url_page, url)),
                   JInt(TotalPages(srv)))}
    ELSE {Envelope(its, p, t) : its \in ArbItems, p \in ArbNumbers, t \in ArbNumbers}
             \cup {NoEnvelope}

----------------------------------------------------------------------------
(* available_files(base_url, tokens), available_folders(base_url, tokens)  *)

\* url = f"https://moveit.{base_url}/api/v1/files"
FilesUrl(base_url) == "https://moveit." \o base_url \o "/api/v1/files"
\* url = f"https://moveit.{base_url}/api/v1/folders"
FoldersUrl(base_url) == "https://moveit." \o base_url \o "/api/v1/folders"

ListerUrl(name, base_url) ==
    IF name = "available_files" THEN FilesUrl(base_url) ELSE FoldersUrl(base_url)

\* The mutant of ListRequest that sends the token with the first request only.
ListRequestFirstOnly(url, url_page, token) ==
    Request("GET", url_page, IF url_page = url THEN {<<"Authorization", token>>} ELSE {})

\* requests.get(url, headers={"Authorization": token}) and
\* requests.get(url_page, headers={"Authorization": token})
ListRequest(url, url_page, token) ==
    Request("GET", url_page, {<<"Authorization", token>>})

\* The mutant of LoopCond that loops while page < total_pages.
LoopCondLess(p, t) == p.v < t.v

\* while page != total_pages: Python's != between two ints, two strs, or an
\* int and a str (which are never equal).
LoopCond(p, t) == p # t

\* The mutant of NextPageUrl that counts pages from 0.
NextPageUrlOffByOne(url, p) == url \o "?page=" \o PyStr(p)

\* next_page = page + 1; url_page = f"{url}?page={next_page}"
NextPageUrl(url, p) == url \o "?page=" \o PyStr(PyAdd1(p))

\* The mutant of ListExtend that puts the new page in front.
ListExtendFront(its, more) == more \o its

\* items.extend(files['items'])
ListExtend(its, more) == its \o more

\* The mutant of FirstPage that reads totalPages for page.
FirstPageFromTotal(files) == PyInt(files.totalPages)

\* Before the loop, in both listers: page = int(files['paging']['page'])
FirstPage(files) == PyInt(files.page)
\* Before the loop, in both listers: total_pages = int(files['paging']['totalPages'])
FirstTotalPages(files) == PyInt(files.totalPages)

\* In the loop of available_files: page = int(files['paging']['page'])
FilesPage(files) == PyInt(files.page)
\* In the loop of available_files: total_pages = int(files['paging']['totalPages'])
FilesTotalPages(files) == PyInt(files.totalPages)

\* In the loop of available_folders: page = folders['paging']['page']
FoldersPage(folders) == folders.page
\* In the loop of available_folders: total_pages = folders['paging']['totalPages']
FoldersTotalPages(folders) == folders.totalPages

\* page and total_pages as the loop of lister `name` sets them.
LoopPage(name, resp) ==
    IF name = "available_files" THEN FilesPage(resp) ELSE FoldersPage(resp)
LoopTotalPages(name, resp) ==
    IF name = "available_files" THEN FilesTotalPages(resp) ELSE FoldersTotalPages(resp)

\* The lines up to the while loop, the same in both listers: the token, the
\* URL, the first request, items, and page / total_pages coerced with int().
ListerCall(name) ==
    /\ op = "idle"
    /\ \E base_url \in BaseUrls, tokens \in TokenMaps, srv \in Servers :
        /\ op' = name
        /\ args' = [base_url |-> base_url, tokens |-> tokens]
        /\ server' = srv
        /\ IF ~Has(tokens, "access_token")
           THEN /\ result' = Raise("KeyError", <<"access_token">>)
                /\ pc' = "done"
                /\ UNCHANGED <<requests, responses, items, page, total_pages>>
           ELSE LET url == ListerUrl(name, base_url) IN
                \E resp \in ListResponses(srv, url, url) :
                    /\ requests' = <<ListRequest(url, url, Bearer(tokens))>>
                    /\ responses' = <<resp>>
                    /\ IF resp.ok
                       THEN /\ items' = resp.items
                            /\ page' = FirstPage(resp)
                            /\ total_pages' = FirstTotalPages(resp)
                            /\ pc' = "loop"
                            /\ UNCHANGED result
                       ELSE /\ result' = Raise("KeyError", <<"items">>)
                            /\ pc' = "done"
                            /\ UNCHANGED <<items, page, total_pages>>
    /\ UNCHANGED <<tmp, data>>

\* One iteration of the while loop: the request for the next page, then
\* items.extend and the new page / total_pages.
ListerLoop(name) ==
    /\ op = name
    /\ pc = "loop"
    /\ LoopCond(page, total_pages)
    /\ Len(requests) < MaxRequests
    /\ IF ~CanAdd1(page)
       THEN /\ result' = Raise("TypeError", <<>>)
            /\ pc' = "done"
            /\ UNCHANGED <<requests, responses, items, page, total_pages>>
       ELSE LET url == ListerUrl(name, args.base_url)
                url_page == NextPageUrl(url, page)
            IN  \E resp \in ListResponses(server, url_page, url) :
                    /\ requests' =
                        Append(requests, ListRequest(url, url_page, Bearer(args.tokens)))
                    /\ responses' = Append(responses, resp)
                    /\ IF resp.ok
                       THEN /\ items' = ListExtend(items, resp.items)
                            /\ page' = LoopPage(name, resp)
                            /\ total_pages' = LoopTotalPages(name, resp)
                            /\ UNCHANGED <<pc, result>>
                       ELSE /\ result' = Raise("KeyError", <<"items">>)
                            /\ pc' = "done"
                            /\ UNCHANGED <<items, page, total_pages>>
    /\ UNCHANGED <<op, args, server, tmp, data>>

\* return items, once the while condition is false.
ListerReturn(name) ==
    /\ op = name
    /\ pc = "loop"
    /\ ~LoopCond(page, total_pages)
    /\ result' = Return(items)
    /\ pc' = "done"
    /\ UNCHANGED <<op, args, server, requests, responses, items, page, total_pages,
                   tmp, data>>

available_files_call == ListerCall("available_files")
available_files_loop == ListerLoop("available_files")
available_files_return == ListerReturn("available_files")

available_folders_call == ListerCall("available_folders")
available_folders_loop == ListerLoop("available_folders")
available_folders_return == ListerReturn("available_folders")

----------------------------------------------------------------------------
(* read_move_it_file(base_url, tokens, file_id, file_type="csv",           *)
(*                   sheet_download=None)                                  *)

FileIds == {"7"}
\* "json" stands for every file_type other than csv, txt and excel.
FileTypes == {"csv", "txt", "excel", "json"}
\* What the downloaded bytes are: comma-separated text, tab-separated text, a
\* spreadsheet, or nothing at all.
Contents == {"csv", "tsv", "xlsx", "empty"}
DownloadStatusCodes == {200, 404}

\* url = f"https://moveit.{base_url}/api/v1/files/{file_id}/download"
DownloadUrl(base_url, file_id) ==
    "https://moveit." \o base_url \o "/api/v1/files/" \o file_id \o "/download"

\* headers = {'Authorization': f'Bearer {token}'}; the c_type computed just
\* before is not sent.
DownloadRequest(base_url, tokens, file_id) ==
    Request("GET", DownloadUrl(base_url, file_id), {<<"Authorization", Bearer(tokens)>>})

\* The branch of the if / elif chain that file_type selects, "none" when no
\* branch matches.
ParseBranch(file_type) ==
    IF file_type = "csv" THEN "read_csv"
    ELSE IF file_type = "txt" THEN "read_csv_tab"
    ELSE IF file_type = "excel" THEN "read_excel"
    ELSE "none"

\* pandas parses any non-empty text with read_csv and a spreadsheet with
\* read_excel; everything else raises.
ParseOk(branch, content) ==
    IF branch = "read_excel" THEN content = "xlsx" ELSE content \in {"csv", "tsv"}

Dataset(branch, content, sheet) == <<branch, content, sheet>>

\* tmp = tempfile.NamedTemporaryFile(delete=False); token = tokens['access_token']
read_move_it_file_call ==
    /\ op = "idle"
    /\ \E base_url \in BaseUrls, tokens \in TokenMaps, file_id \in FileIds,
          file_type \in FileTypes :
        /\ op' = "read_move_it_file"
        /\ args' = [base_url |-> base_url, tokens |-> tokens, file_id |-> file_id,
                    file_type |-> file_type, sheet_download |-> "None"]
        /\ tmp' = "present"
        /\ IF Has(tokens, "access_token")
           THEN pc' = "get" /\ UNCHANGED result
           ELSE pc' = "done" /\ result' = Raise("KeyError", <<"access_token">>)
    /\ UNCHANGED <<server, requests, responses, items, page, total_pages, data>>

\* response = requests.get(url, headers=headers, stream=True), which raises
\* when the transport fails, then f.write(response.content) into tmp.name.
read_move_it_file_get ==
    /\ op = "read_move_it_file"
    /\ pc = "get"
    /\ requests' = <<DownloadRequest(args.base_url, args.tokens, args.file_id)>>
    /\ \/ /\ result' = Raise("ConnectionError", <<>>)
          /\ pc' = "done"
          /\ UNCHANGED responses
       \/ \E status \in DownloadStatusCodes, content \in Contents :
            /\ responses' = <<[status |-> status, content |-> content]>>
            /\ pc' = "parse"
            /\ UNCHANGED result
    /\ UNCHANGED <<op, args, server, items, page, total_pages, tmp, data>>

\* The mutant of ParseFailureTmp with the file removed in a finally clause.
ParseFailureTmpRemoved == "removed"

\* The file when a parser raises: nothing between the parse and the raise
\* touches it.
ParseFailureTmp == tmp

\* if file_type == "csv": ... elif file_type == "txt": ... elif file_type == "excel": ...
read_move_it_file_parse ==
    /\ op = "read_move_it_file"
    /\ pc = "parse"
    /\ LET branch == ParseBranch(args.file_type)
           content == responses[1].content
       IN  IF branch = "none"
           THEN /\ pc' = "remove"
                /\ UNCHANGED <<data, result, tmp>>
           ELSE IF ParseOk(branch, content)
           THEN /\ data' = <<Dataset(branch, content, args.sheet_download)>>
                /\ pc' = "remove"
                /\ UNCHANGED <<result, tmp>>
           ELSE /\ result' = Raise("ParserError", <<>>)
                /\ pc' = "done"
                /\ tmp' = ParseFailureTmp
                /\ UNCHANGED data
    /\ UNCHANGED <<op, args, server, requests, responses, items, page, total_pages>>

\* os.remove(tmp.name)
read_move_it_file_remove ==
    /\ op = "read_move_it_file"
    /\ pc = "remove"
    /\ tmp' = "removed"
    /\ pc' = "return"
    /\ UNCHANGED <<op, args, server, requests, responses, items, page, total_pages,
                   data, result>>

\* return data: reading a local that no branch assigned raises UnboundLocalError.
read_move_it_file_return ==
    /\ op = "read_move_it_file"
    /\ pc = "return"
    /\ result' = IF data # <<>> THEN Return(data[1]) ELSE Raise("UnboundLocalError", <<"data">>)
    /\ pc' = "done"
    /\ UNCHANGED <<op, args, server, requests, responses, items, page, total_pages,
                   tmp, data>>

----------------------------------------------------------------------------

Next ==
    \/ auth_move_it
    \/ read_move_it_file_call
    \/ read_move_it_file_get
    \/ read_move_it_file_parse
    \/ read_move_it_file_remove
    \/ read_move_it_file_return
    \/ upload_move_it_file
    \/ available_files_call
    \/ available_files_loop
    \/ available_files_return
    \/ available_folders_call
    \/ available_folders_loop
    \/ available_folders_return

Spec == Init /\ [][Next]_vars

----------------------------------------------------------------------------
(* Definitions shared by the properties.                                   *)

Listers == {"available_files", "available_folders"}

LastResponse == responses[Len(responses)]

\* The token the caller passed.
AccessToken == Get(args.tokens, "access_token")

\* The listing URL of the running lister, spelled out.
ListingUrl ==
    IF op = "available_files"
    THEN "https://moveit." \o args.base_url \o "/api/v1/files"
    ELSE "https://moveit." \o args.base_url \o "/api/v1/folders"

\* The pages 1..k of a well-behaved listing, concatenated in page order.
RECURSIVE ConcatPages(_, _)
ConcatPages(srv, k) ==
    IF k = 0 THEN <<>> ELSE ConcatPages(srv, k - 1) \o PageItems(srv, k)

\* A response is a page envelope whose page and totalPages are JSON ints.
IntTyped(r) == r.ok /\ r.page.t = "int" /\ r.totalPages.t = "int"
\* A response reports page equal to totalPages.
ReportsLastPage(r) == r.page.v = r.totalPages.v

----------------------------------------------------------------------------
(* C1: against a service that answers the first request with page 1 of T   *)
(* and the request for page k with page k of T, a lister ends by returning *)
(* exactly the items of pages 1, 2, ..., T concatenated in page order,     *)
(* each page's order kept, nothing dropped, duplicated or reordered.       *)
C1_Concatenation ==
    (op \in Listers /\ server.mode = "paged" /\ pc = "done"
        /\ Has(args.tokens, "access_token"))
    => /\ result.kind = "return"
       /\ result.val = ConcatPages(server, TotalPages(server))
       /\ (TotalPages(server) = 1 => result.val = PageItems(server, 1))

\* A listing of three full pages has been returned.
C1_Witness ==
    /\ op \in Listers
    /\ server.mode = "paged"
    /\ server.sizes = <<2, 2, 2>>
    /\ result.kind = "return"
    /\ result.val = << <<1, 1>>, <<1, 2>>, <<2, 1>>, <<2, 2>>, <<3, 1>>, <<3, 2>> >>

(* C2: a lister returns only when the last response reports page equal to  *)
(* totalPages, and then it does return; while the (integer) page envelopes *)
(* received so far all report page different from totalPages the lister    *)
(* has neither returned nor raised and its next step is another request:   *)
(* nothing but the service's answer ends the loop.                         *)
C2_ReturnsExactlyOnLastPage ==
    op \in Listers =>
        /\ result.kind = "return"
            => Len(responses) >= 1 /\ ReportsLastPage(LastResponse)
        /\ (pc = "loop" /\ IntTyped(LastResponse) /\ ReportsLastPage(LastResponse))
            => /\ ENABLED (available_files_return \/ available_folders_return)
               /\ ~ENABLED (available_files_loop \/ available_folders_loop)
        /\ (Len(responses) >= 1
                /\ \A i \in 1..Len(responses) :
                      IntTyped(responses[i]) /\ ~ReportsLastPage(responses[i]))
            => /\ pc = "loop"
               /\ result.kind = "none"
               /\ ~ENABLED (available_files_return \/ available_folders_return)
               /\ Len(requests) < MaxRequests
                    => ENABLED (available_files_loop \/ available_folders_loop)

\* A service that oscillates between page 1 of 2 and page 2 of 1 has been
\* asked as often as the model follows a lister, which is still looping.
C2_Witness ==
    /\ op \in Listers
    /\ server.mode = "arbitrary"
    /\ Len(requests) = MaxRequests
    /\ \A i \in 1..Len(responses) :
          IntTyped(responses[i]) /\ ~ReportsLastPage(responses[i])
    /\ responses[1].page.v # responses[2].page.v
    /\ pc = "loop"

(* C3 as stated: auth_move_it returns an error string for every status     *)
(* outside 200..299 and the parsed JSON body for a status inside.          *)
C3_ErrorStringForEveryNon2xx ==
    (op = "auth_move_it" /\ pc = "done") =>
        LET status == responses[1].status
            body == responses[1].body
        IN  /\ (status < 200 \/ status > 299)
                => result.kind = "return" /\ result.val[1] = "str"
            /\ (status >= 200 /\ status <= 299 /\ body[1] = "json")
                => result = Return(<<"json", body[2]>>)

(* C3 as amended: auth_move_it never raises on an HTTP error status: for   *)
(* every status in 400..599 it returns an error string and no token        *)
(* mapping; for every other status (2xx, and 1xx / 3xx as well) it returns *)
(* the parsed JSON body unchanged, and raises only when the body is not    *)
(* JSON.                                                                   *)
C3_ErrorStringFor4xx5xx ==
    (op = "auth_move_it" /\ pc = "done") =>
        LET status == responses[1].status
            body == responses[1].body
        IN  /\ (status >= 400 /\ status <= 599)
                => result.kind = "return" /\ result.val[1] = "str"
            /\ ((status < 400 \/ status > 599) /\ body[1] = "json")
                => result = Return(<<"json", body[2]>>)
            /\ result.kind = "raise"
                => (status < 400 \/ status > 599) /\ body[1] # "json"

\* The token request was answered 401 and auth_move_it returned a string.
C3_Witness ==
    /\ op = "auth_move_it"
    /\ pc = "done"
    /\ responses[1].status = 401
    /\ result.kind = "return"
    /\ result.val[1] = "str"

(* C4: upload_move_it_file returns normally exactly when the status is 200 *)
(* or 201; for every other status it raises Exception with the status code *)
(* as its only argument; either way exactly one POST was sent.             *)
C4_UploadStatus ==
    (op = "upload_move_it_file" /\ Len(responses) = 1) =>
        LET status == responses[1].status
        IN  /\ result.kind = "return" <=> status \in {200, 201}
            /\ status \notin {200, 201} => result = Raise("Exception", <<status>>)
            /\ Len(requests) = 1
            /\ requests[1].method = "POST"

\* An upload was answered 202 Accepted and raised.
C4_Witness ==
    /\ op = "upload_move_it_file"
    /\ Len(responses) = 1
    /\ responses[1].status = 202
    /\ result.kind = "raise"

(* C5: the upload request carries Transfer-Encoding: chunked exactly when  *)
(* the file has 40,000,000 bytes or more or the chunked argument is True;  *)
(* None counts as False.                                                   *)
C5_ChunkedHeader ==
    (op = "upload_move_it_file" /\ Len(requests) = 1) =>
        LET headers == requests[1].headers
        IN  /\ <<"Transfer-Encoding", "chunked">> \in headers
                <=> (args.size >= 40000000 \/ args.chunked = "True")
            /\ Has(headers, "Transfer-Encoding")
                => <<"Transfer-Encoding", "chunked">> \in headers

\* A file of 39,999,999 bytes with chunked=None was sent without the header.
C5_Witness ==
    /\ op = "upload_move_it_file"
    /\ Len(requests) = 1
    /\ args.size = 39999999
    /\ args.chunked = "None"
    /\ ~Has(requests[1].headers, "Transfer-Encoding")

(* C6: every request of a lister, of the download and of the upload        *)
(* carries Authorization: Bearer T for the access_token T of the token     *)
(* mapping passed, the same on all requests of the call; the token request *)
(* carries no Authorization header.                                        *)
C6_BearerOnEveryRequest ==
    /\ op \in Listers \cup {"read_move_it_file", "upload_move_it_file"}
        => \A i \in 1..Len(requests) :
              /\ <<"Authorization", "Bearer " \o AccessToken>> \in requests[i].headers
              /\ \A kv \in requests[i].headers :
                    kv[1] = "Authorization" => kv[2] = "Bearer " \o AccessToken
    /\ op = "auth_move_it"
        => \A i \in 1..Len(requests) : ~Has(requests[i].headers, "Authorization")

\* A lister has sent its first request and two page requests with token T2.
C6_Witness ==
    /\ op \in Listers
    /\ Len(requests) = 3
    /\ AccessToken = "T2"

(* C7: read_move_it_file called with a file_type other than csv, txt or    *)
(* excel completes without raising.                                        *)
C7_UnsupportedFormatNoError ==
    (op = "read_move_it_file" /\ pc = "done" /\ Len(responses) = 1
        /\ args.file_type \notin {"csv", "txt", "excel"})
    => result.kind # "raise"

(* C8: whenever read_move_it_file returns a dataset its temporary file is  *)
(* gone, and the file is removed only once parsing has finished; when the  *)
(* call ends because the token has no access_token, the request fails or   *)
(* the parser raises, the file is still there.                             *)
C8_TmpFile ==
    op = "read_move_it_file" =>
        /\ result.kind = "return" => tmp = "removed"
        /\ tmp = "removed"
            => /\ pc \in {"return", "done"}
               /\ Len(responses) = 1
               /\ data # <<>> \/ args.file_type \notin {"csv", "txt", "excel"}
        /\ (result.kind = "raise"
                /\ result.exc \in {"KeyError", "ConnectionError", "ParserError"})
            => tmp = "present"

\* A download has returned its dataset.
C8_Witness ==
    /\ op = "read_move_it_file"
    /\ result.kind = "return"
    /\ tmp = "removed"

\* One iteration of a lister's while loop that went through.
LoopIteration ==
    /\ op \in Listers
    /\ pc = "loop"
    /\ pc' = "loop"
    /\ Len(responses') = Len(responses) + 1

(* C9 as stated: from each iteration of a lister's loop to the next the    *)
(* page held by the lister grows by exactly 1.                             *)
C9_PageGrowsByOne ==
    [][LoopIteration => page'.v = page.v + 1]_vars

(* C9 as amended: against a service that answers the request for page k    *)
(* with page k of T, the page held by the lister grows by exactly 1 with   *)
(* every iteration of the loop; whatever the service, a lister returns     *)
(* only with page equal to total_pages.                                    *)
C9_PageGrowsByOneWhenEchoed ==
    [][/\ (LoopIteration /\ server.mode = "paged")
            => page' = JInt(page.v + 1)
       /\ (op \in Listers /\ result.kind = "none" /\ result'.kind = "return")
            => page = total_pages]_vars

\* A lister has followed a three-page listing to its last page.
C9_Witness ==
    /\ op \in Listers
    /\ server.mode = "paged"
    /\ Len(responses) = 3
    /\ page = JInt(3)
    /\ total_pages = JInt(3)

(* C10: the first request of a lister goes to the listing URL without a    *)
(* ?page= suffix; every later request goes to {url}?page=p+1 for the page  *)
(* p of the response just before it; every request sent has been answered  *)
(* before the next is sent; so against a service that echoes the page      *)
(* asked for, with T pages, exactly T requests are made, for pages 1..T in *)
(* increasing order.                                                       *)
C10_RequestOrder ==
    op \in Listers =>
        /\ Len(requests) >= 1 => requests[1].url = ListingUrl
        /\ \A i \in 2..Len(requests) :
              requests[i].url
                  = ListingUrl \o "?page=" \o ToString(responses[i - 1].page.v + 1)
        /\ Len(requests) = Len(responses)
        /\ (server.mode = "paged" /\ result.kind = "return")
            => /\ Len(requests) = TotalPages(server)
               /\ \A i \in 1..Len(requests) :
                     RequestedPage(requests[i].url, ListingUrl) = i

\* A lister has returned a three-page listing after three requests.
C10_Witness ==
    /\ op \in Listers
    /\ server.mode = "paged"
    /\ TotalPages(server) = 3
    /\ result.kind = "return"
    /\ Len(requests) = 3

====
